---- MODULE Spec2Model ----
(***************************************************************************)
(* A model of cucapra/nttstuff: the number theoretic transforms of         *)
(* nttstuff.py and ntt_round_trip.py and the helpers of ntt_utils.py.      *)
(* Python integers are unbounded; the bounds below keep every value far    *)
(* below TLC's 32-bit integers, so no arithmetic of the model wraps.       *)
(***************************************************************************)
EXTENDS Integers, Sequences, FiniteSets, TLC

VARIABLES pc, n, q, g, input_upper_bound, min_modulus, a, omegas, phis,
          br_phis, inv_phis, ntt_res, intt_res, naive_res, number,
          bit_length, ret, ts

vars == <<pc, n, q, g, input_upper_bound, min_modulus, a, omegas, phis,
          br_phis, inv_phis, ntt_res, intt_res, naive_res, number,
          bit_length, ret, ts>>

(***************************************************************************)
(* Bounds of the model.                                                    *)
(***************************************************************************)
\* transform lengths are 2^0 .. 2^MaxLogN
MaxLogN == 2
\* input_upper_bound ranges over 1 .. MaxBound, as far as the lists of
\* length n with entries in [0, input_upper_bound] number at most MaxLists
MaxBound == 7
MaxLists == 4096
\* moduli handed to the helpers directly are the primes up to MaxPrime
MaxPrime == 30
\* min_modulus handed to find_modulus directly ranges over 1 .. MaxMinModulus
MaxMinModulus == 20
\* reverse_bits is called with bit_length in 0 .. MaxBits
MaxBits == 5
\* entries of the inputs of cooley_tukey_ntt and naive_ntt are in 0 .. MaxEntry
MaxEntry == 3

(***************************************************************************)
(* Python values: None, an int, a raised exception.                        *)
(***************************************************************************)
None == [tag |-> "None", val |-> 0]

IntVal(v) == [tag |-> "int", val |-> v]

Raise(e) == [tag |-> e, val |-> 0]

(***************************************************************************)
(* Python's integer operators on non-negative integers.                    *)
(***************************************************************************)
\* x >> k
Shr(x, k) == x \div (2 ^ k)

\* x << k
Shl(x, k) == x * (2 ^ k)

RECURSIVE BitAnd(_, _)
\* x & y
BitAnd(x, y) ==
    IF x = 0 \/ y = 0 THEN 0
    ELSE (IF x % 2 = 1 /\ y % 2 = 1 THEN 1 ELSE 0)
         + 2 * BitAnd(x \div 2, y \div 2)

RECURSIVE BitOr(_, _)
\* x | y
BitOr(x, y) ==
    IF x = 0 THEN y
    ELSE IF y = 0 THEN x
    ELSE (IF x % 2 = 1 \/ y % 2 = 1 THEN 1 ELSE 0)
         + 2 * BitOr(x \div 2, y \div 2)

RECURSIVE BitXor(_, _)
\* x ^ y
BitXor(x, y) ==
    IF x = 0 THEN y
    ELSE IF y = 0 THEN x
    ELSE (IF x % 2 # y % 2 THEN 1 ELSE 0)
         + 2 * BitXor(x \div 2, y \div 2)

RECURSIVE BitLength(_)
\* int.bit_length()
BitLength(x) == IF x = 0 THEN 0 ELSE 1 + BitLength(x \div 2)

\* (x * x) % m
SquareMod(x, m) == (x * x) % m

RECURSIVE ModPow(_, _, _)
\* pow(b, e, m), and (b ** e) % m, by squaring: every product is reduced,
\* which leaves the residue of the unbounded power unchanged
ModPow(b, e, m) ==
    IF e = 0 THEN 1 % m
    ELSE IF e % 2 = 0 THEN SquareMod(ModPow(b, e \div 2, m), m)
    ELSE (SquareMod(ModPow(b, e \div 2, m), m) * b) % m

(***************************************************************************)
(* The number theory oracle (sympy.ntheory), by its contract.              *)
(***************************************************************************)
isprime(x) == x >= 2 /\ \A d \in 2..(x - 1) : d * d > x \/ x % d # 0

\* every generator of the multiplicative group modulo the prime p: the
\* residues whose order is p - 1
PrimitiveRoots(p) ==
    {x \in 1..(p - 1) : \A k \in 1..(p - 2) : ModPow(x, k, p) # 1}

\* sympy's primitive_root returns the smallest one
primitive_root(p) ==
    CHOOSE x \in PrimitiveRoots(p) : \A y \in PrimitiveRoots(p) : x <= y

Primes == {p \in 2..MaxPrime : isprime(p)}

PowersOfTwo == {2 ^ k : k \in 0..MaxLogN}

(***************************************************************************)
(* ntt_utils.reverse_bits (nttstuff.reverse_bits is the same text).        *)
(***************************************************************************)
\* a slip in the mirrored position: 1 << (bit_length - i)
MirroredBitOffByOne(len, i) == Shl(1, len - i)

\* 1 << (bit_length - 1 - i)
MirroredBit(len, i) == Shl(1, len - 1 - i)

RECURSIVE ReverseBitsLoop(_, _, _, _)
\* for i in range(0, bit_length)
ReverseBitsLoop(num, len, i, reversed) ==
    IF i >= len THEN reversed
    ELSE ReverseBitsLoop(num, len, i + 1,
             IF BitAnd(Shr(num, i), 1) # 0
             THEN BitOr(reversed, MirroredBit(len, i))
             ELSE reversed)

reverse_bits(num, len) == ReverseBitsLoop(num, len, 0, 0)

(***************************************************************************)
(* ntt_utils.inversed and its multiplicative_inverse.                      *)
(***************************************************************************)
RECURSIVE InverseLoop(_, _, _, _, _)
\* the while loop: x, m are the locals a, q; prime is the modulus kept aside
InverseLoop(x, m, X, Y, prime) ==
    IF x > 1
    THEN IF m = 0 THEN Raise("ZeroDivisionError")
         ELSE InverseLoop(m, x % m, Y, X - (x \div m) * Y, prime)
    ELSE IntVal(IF X >= 0 THEN X ELSE X + prime)

multiplicative_inverse(x, m) ==
    IF x = 1 THEN IntVal(0) ELSE InverseLoop(x, m, 1, 0, m)

inversed(xs, m) == [i \in 1..Len(xs) |-> multiplicative_inverse(xs[i], m).val]

(***************************************************************************)
(* ntt_round_trip.find_modulus.                                            *)
(***************************************************************************)
\* a slip in the comparison: q <= min_modulus
SkippedStrict(cand, minmod) == ~isprime(cand) \/ cand <= minmod

\* if not isprime(q) or q < min_modulus: continue
Skipped(cand, minmod) == ~isprime(cand) \/ cand < minmod

RECURSIVE FindModulusLoop(_, _, _, _)
\* for k in range(1, n ** n): falling off the end returns None
FindModulusLoop(len, minmod, k, stop) ==
    IF k >= stop THEN None
    ELSE LET cand == k * 2 * len + 1
         IN  IF Skipped(cand, minmod)
             THEN FindModulusLoop(len, minmod, k + 1, stop)
             ELSE IF cand % (2 * len) # 1
             THEN FindModulusLoop(len, minmod, k + 1, stop)
             ELSE IntVal(cand)

find_modulus(len, minmod) ==
    IF ~(minmod > len) THEN Raise("AssertionError")
    ELSE FindModulusLoop(len, minmod, 1, len ^ len)

(***************************************************************************)
(* Python lists, indexed from 0.                                           *)
(***************************************************************************)
Min(x, y) == IF x <= y THEN x ELSE y

\* check_eq: no assert fails over zip(xs, ys)
check_eq(xs, ys) == \A i \in 1..Min(Len(xs), Len(ys)) : xs[i] = ys[i]

Get(s, i) == s[i + 1]

Set(s, i, v) == [s EXCEPT ![i + 1] = v]

\* s[:k]
Take(s, k) == SubSeq(s, 1, k)

\* the lists of length len with entries in 0 .. hi
Lists(len, hi) == [1..len -> 0..hi]

(***************************************************************************)
(* ntt_utils.gen_omegas (nttstuff.gen_omegas is the same computation).     *)
(* gen is the value primitive_root(q) returned.                            *)
(***************************************************************************)
\* a slip in the exponent: k = (q - 1) // (n // 2), a root of order n / 2
OmegaExponentHalfOrder(len, m) == 2 * ((m - 1) \div len)

\* k = (q - 1) // n
OmegaExponent(len, m) == (m - 1) \div len

\* a slip in the root: omega = g % q, the generator itself
OmegaIsGenerator(len, m, gen) == gen % m

\* omega = (g ** k) % q
Omega(len, m, gen) == ModPow(gen, OmegaExponent(len, m), m)

RECURSIVE OmegasAppend(_, _, _, _, _)
\* for i in range(n): omegas.append((omegas[i] * omega) % q)
OmegasAppend(tab, i, len, omega, m) ==
    IF i >= len THEN tab
    ELSE OmegasAppend(Append(tab, (Get(tab, i) * omega) % m),
                      i + 1, len, omega, m)

\* the table of n + 1 entries, before its last entry is dropped
OmegasTable(len, m, gen) == OmegasAppend(<<1>>, 0, len, Omega(len, m, gen), m)

\* for i in range(n): assert (omegas[n - i] * omegas[i]) % q == 1
OmegasAssert(tab, len, m) ==
    \A i \in 0..(len - 1) : (Get(tab, len - i) * Get(tab, i)) % m = 1

\* the asserts of gen_omegas hold
OmegasOk(len, m, gen) ==
    /\ 0 <= Omega(len, m, gen) /\ Omega(len, m, gen) < m
    /\ OmegasAssert(OmegasTable(len, m, gen), len, m)

\* the list gen_omegas returns when its asserts hold
gen_omegas(len, m, gen) == Take(OmegasTable(len, m, gen), len)

(***************************************************************************)
(* ntt_round_trip.gen_phis and its tonelli_shanks.                         *)
(***************************************************************************)
legendre(x, m) == ModPow(x, (m - 1) \div 2, m)

RECURSIVE OddPart(_)
\* Q after: while Q % 2 == 0: Q //= 2
OddPart(x) == IF x % 2 = 0 THEN OddPart(x \div 2) ELSE x

RECURSIVE TwoPart(_)
\* s after the same loop
TwoPart(x) == IF x % 2 = 0 THEN 1 + TwoPart(x \div 2) ELSE 0

RECURSIVE NonResidue(_, _)
\* for z in range(2, q): if q - 1 == legendre(z, q): break
NonResidue(z, m) ==
    IF z >= m - 1 \/ legendre(z, m) = m - 1 THEN z ELSE NonResidue(z + 1, m)

RECURSIVE LeastI(_, _, _, _)
\* for i in range(1, m): if (t2 - 1) % q == 0: break; t2 = (t2 * t2) % q
LeastI(t2, i, mm, m) ==
    IF i >= mm - 1 \/ (t2 - 1) % m = 0 THEN i
    ELSE LeastI((t2 * t2) % m, i + 1, mm, m)

\* the locals of tonelli_shanks when its while loop is first tested
TSEnter(x, m) ==
    LET Q == OddPart(m - 1)
        z == NonResidue(2, m)
    IN  [x |-> x, r |-> ModPow(x, (Q + 1) \div 2, m), c |-> ModPow(z, Q, m),
         t |-> ModPow(x, Q, m), m |-> TwoPart(m - 1)]

\* the while loop's test: (t - 1) % q != 0
TSRunning(st, m) == (st.t - 1) % m # 0

\* with m <= 1 the for loop has no iteration and the shift count is negative
TSFails(st) == st.m <= 1

\* a slip in the update of r: r = (r * c) % q, the old c instead of b
TSStepOldC(st, m) ==
    LET i  == LeastI((st.t * st.t) % m, 1, st.m, m)
        b  == ModPow(st.c, Shl(1, st.m - i - 1), m)
        c2 == (b * b) % m
    IN  [x |-> st.x, r |-> (st.r * st.c) % m, c |-> c2,
         t |-> (st.t * c2) % m, m |-> i]

\* one iteration of the while loop
TSStep(st, m) ==
    LET i  == LeastI((st.t * st.t) % m, 1, st.m, m)
        b  == ModPow(st.c, Shl(1, st.m - i - 1), m)
        c2 == (b * b) % m
    IN  [x |-> st.x, r |-> (st.r * b) % m, c |-> c2,
         t |-> (st.t * c2) % m, m |-> i]

RECURSIVE TSLoop(_, _)
TSLoop(st, m) ==
    IF ~TSRunning(st, m) THEN IntVal(st.r)
    ELSE IF TSFails(st) THEN Raise("ValueError")
    ELSE TSLoop(TSStep(st, m), m)

tonelli_shanks(x, m) ==
    IF TwoPart(m - 1) = 1 THEN IntVal(ModPow(x, (m + 1) \div 4, m))
    ELSE TSLoop(TSEnter(x, m), m)

gen_phis(oms, m) == [i \in 1..Len(oms) |-> tonelli_shanks(oms[i], m).val]

(***************************************************************************)
(* ntt_round_trip.get_bit_reversed.                                        *)
(***************************************************************************)
RECURSIVE BitReversedLoop(_, _, _)
BitReversedLoop(cc, i, len) ==
    IF i >= len THEN cc
    ELSE LET rev_i == reverse_bits(i, BitLength(len) - 1)
         IN  BitReversedLoop(
                 IF rev_i > i
                 THEN Set(Set(cc, i, Get(cc, rev_i)), rev_i, Get(cc, i))
                 ELSE cc,
                 i + 1, len)

get_bit_reversed(c, len, m) == BitReversedLoop(c, 0, len)

(***************************************************************************)
(* ntt_round_trip.cooley_tukey_ntt_opt.                                    *)
(***************************************************************************)
RECURSIVE CTPairs(_, _, _, _, _, _)
\* for j in range(j1, j2 + 1)
CTPairs(arr, j, j2, t, S, m) ==
    IF j > j2 THEN arr
    ELSE LET U == Get(arr, j)
             V == Get(arr, j + t) * S
         IN  CTPairs(Set(Set(arr, j, (U + V) % m), j + t, (U - V) % m),
                     j + 1, j2, t, S, m)

RECURSIVE CTGroups(_, _, _, _, _, _)
\* for i in range(0, m)
CTGroups(arr, i, mm, t, m, tab) ==
    IF i >= mm THEN arr
    ELSE LET j1 == i * Shl(t, 1)
             j2 == j1 + t - 1
         IN  CTGroups(CTPairs(arr, j1, j2, t, Get(tab, mm + i), m),
                      i + 1, mm, t, m, tab)

RECURSIVE CTStages(_, _, _, _, _, _)
\* while m < n
CTStages(arr, t, mm, len, m, tab) ==
    IF ~(mm < len) THEN arr
    ELSE CTStages(CTGroups(arr, 0, mm, Shr(t, 1), m, tab),
                  Shr(t, 1), Shl(mm, 1), len, m, tab)

\* the two asserts at the entry of cooley_tukey_ntt_opt
CTAsserts(len, m) ==
    /\ m % (2 * len) = 1
    /\ BitAnd(len, len - 1) = 0 /\ len > 0

cooley_tukey_ntt_opt(inp, len, m, tab) == CTStages(inp, len, 1, len, m, tab)

(***************************************************************************)
(* ntt_round_trip.gentleman_sande_intt_opt.                                *)
(***************************************************************************)
\* a slip in the butterfly: the Cooley-Tukey form, a[j + t] = (U - V * S) % q
GSButterflyAsForward(arr, j, t, S, m) ==
    LET U == Get(arr, j)
        V == Get(arr, j + t)
    IN  Set(Set(arr, j, (U + V) % m), j + t, (U - V * S) % m)

\* the body of the inner loop: one butterfly on a[j], a[j + t]
GSButterfly(arr, j, t, S, m) ==
    LET U == Get(arr, j)
        V == Get(arr, j + t)
    IN  Set(Set(arr, j, (U + V) % m), j + t, ((U - V) * S) % m)

RECURSIVE GSPairs(_, _, _, _, _, _)
\* for j in range(j1, j2 + 1)
GSPairs(arr, j, j2, t, S, m) ==
    IF j > j2 THEN arr
    ELSE GSPairs(GSButterfly(arr, j, t, S, m), j + 1, j2, t, S, m)

RECURSIVE GSGroups(_, _, _, _, _, _, _)
\* for i in range(h), j1 advancing by t << 1
GSGroups(arr, i, j1, h, t, m, tab) ==
    IF i >= h THEN arr
    ELSE GSGroups(GSPairs(arr, j1, j1 + t - 1, t, Get(tab, h + i), m),
                  i + 1, j1 + Shl(t, 1), h, t, m, tab)

RECURSIVE GSStages(_, _, _, _, _)
\* while m > 1
GSStages(arr, t, mm, m, tab) ==
    IF ~(mm > 1) THEN arr
    ELSE GSStages(GSGroups(arr, 0, 0, Shr(mm, 1), t, m, tab),
                  Shl(t, 1), Shr(mm, 1), m, tab)

\* the list a when the while loop of gentleman_sande_intt_opt has ended
GSButterflies(inp, len, m, tab) == GSStages(inp, 1, len, m, tab)

\* return [(i // n) % q for i in a]
GSScale(arr, len, m) == [i \in 1..Len(arr) |-> (arr[i] \div len) % m]

gentleman_sande_intt_opt(inp, len, m, tab) ==
    GSScale(GSButterflies(inp, len, m, tab), len, m)

(***************************************************************************)
(* nttstuff.naive_ntt and nttstuff.cooley_tukey_ntt.                       *)
(***************************************************************************)
RECURSIVE NaiveSum(_, _, _, _, _, _)
\* for j in range(N): ret[i] = (ret[i] + inp[j] * omegas[(i * j) % N]) % P
NaiveSum(acc, inp, i, j, P, oms) ==
    IF j >= Len(inp) THEN acc
    ELSE NaiveSum((acc + Get(inp, j) * Get(oms, (i * j) % Len(inp))) % P,
                  inp, i, j + 1, P, oms)

naive_ntt(inp, P, oms) ==
    [i \in 1..Len(inp) |-> NaiveSum(0, inp, i - 1, 0, P, oms)]

\* ret[i] ^= ret[rev_i]; ret[rev_i] ^= ret[i]; ret[i] ^= ret[rev_i]
XorSwap(arr, i, k) ==
    LET s1 == Set(arr, i, BitXor(Get(arr, i), Get(arr, k)))
        s2 == Set(s1, k, BitXor(Get(s1, k), Get(s1, i)))
    IN  Set(s2, i, BitXor(Get(s2, i), Get(s2, k)))

RECURSIVE NttReorder(_, _, _)
\* for i in range(N): if rev_i > i: swap
NttReorder(arr, i, bits) ==
    IF i >= Len(arr) THEN arr
    ELSE NttReorder(IF reverse_bits(i, bits) > i
                    THEN XorSwap(arr, i, reverse_bits(i, bits))
                    ELSE arr,
                    i + 1, bits)

RECURSIVE NttPairs(_, _, _, _, _, _, _)
\* for j in range(0, M // 2), g advancing by N // M
NttPairs(arr, i, j, gg, M, P, oms) ==
    IF j >= M \div 2 THEN arr
    ELSE LET k == i + j + (M \div 2)
             U == Get(arr, i + j)
             V == Get(arr, k) * Get(oms, gg)
         IN  NttPairs(Set(Set(arr, i + j, (U + V) % P), k, (U - V) % P),
                      i, j + 1, gg + (Len(arr) \div M), M, P, oms)

RECURSIVE NttBlocks(_, _, _, _, _)
\* for i in range(0, N, M)
NttBlocks(arr, i, M, P, oms) ==
    IF i >= Len(arr) THEN arr
    ELSE NttBlocks(NttPairs(arr, i, 0, 0, M, P, oms), i + M, M, P, oms)

RECURSIVE NttStages(_, _, _, _, _)
\* for _ in range(iters), M doubling; iters = int(math.log2(N))
NttStages(arr, it, M, P, oms) ==
    IF it = 0 THEN arr
    ELSE NttStages(NttBlocks(arr, 0, M, P, oms), it - 1, M * 2, P, oms)

cooley_tukey_ntt(inp, P, oms) ==
    NttStages(NttReorder(inp, 0, BitLength(Len(inp)) - 1),
              BitLength(Len(inp)) - 1, 2, P, oms)

(***************************************************************************)
(* Values of the variables a run does not use.                             *)
(***************************************************************************)
NoTS == [x |-> 0, r |-> 0, c |-> 0, t |-> 0, m |-> 0]

NoBounds == input_upper_bound = 0 /\ min_modulus = 0

NoTables == omegas = <<>> /\ phis = <<>> /\ br_phis = <<>> /\ inv_phis = <<>>

NoResults == ntt_res = <<>> /\ intt_res = <<>> /\ naive_res = <<>>

NoReverse == number = 0 /\ bit_length = 0

(***************************************************************************)
(* reverse_bits(number, bit_length) on the indices of a table of           *)
(* 2^bit_length entries.                                                   *)
(***************************************************************************)
InitReverse ==
    /\ pc = "reverse_bits"
    /\ bit_length \in 0..MaxBits
    /\ number \in 0..(2 ^ bit_length - 1)
    /\ n = 0 /\ q = 0 /\ g = 0 /\ a = <<>> /\ ret = None /\ ts = NoTS
    /\ NoBounds /\ NoTables /\ NoResults

ReverseBits ==
    /\ pc = "reverse_bits"
    /\ ret' = IntVal(reverse_bits(number, bit_length))
    /\ pc' = "returned"
    /\ UNCHANGED <<n, q, g, input_upper_bound, min_modulus, a, omegas, phis,
                   br_phis, inv_phis, ntt_res, intt_res, naive_res, number,
                   bit_length, ts>>

NextReverse == ReverseBits

SpecReverse == InitReverse /\ [][NextReverse]_vars

(***************************************************************************)
(* inversed([x], q) for a prime q and a unit x.                            *)
(***************************************************************************)
InitInverse ==
    /\ pc = "inversed"
    /\ q \in Primes
    /\ a \in {<<x>> : x \in 1..(q - 1)}
    /\ n = 0 /\ g = 0 /\ ret = None /\ ts = NoTS
    /\ NoBounds /\ NoTables /\ NoResults /\ NoReverse

\* an entry whose inverse raises instead of returning
InversedRaises(xs, m) ==
    \E i \in 1..Len(xs) : multiplicative_inverse(xs[i], m).tag # "int"

Inversed ==
    /\ pc = "inversed"
    /\ IF InversedRaises(a, q)
       THEN pc' = "ZeroDivisionError" /\ UNCHANGED inv_phis
       ELSE pc' = "returned" /\ inv_phis' = inversed(a, q)
    /\ UNCHANGED <<n, q, g, input_upper_bound, min_modulus, a, omegas, phis,
                   br_phis, ntt_res, intt_res, naive_res, number,
                   bit_length, ret, ts>>

NextInverse == Inversed

SpecInverse == InitInverse /\ [][NextInverse]_vars

(***************************************************************************)
(* find_modulus(n, min_modulus).                                           *)
(***************************************************************************)
InitModulus ==
    /\ pc = "find_modulus"
    /\ n \in PowersOfTwo
    /\ min_modulus \in 1..MaxMinModulus
    /\ q = 0 /\ g = 0 /\ a = <<>> /\ ret = None /\ ts = NoTS
    /\ input_upper_bound = 0
    /\ NoTables /\ NoResults /\ NoReverse

FindModulus ==
    /\ pc = "find_modulus"
    /\ ret' = find_modulus(n, min_modulus)
    /\ pc' = IF ret'.tag \in {"int", "None"} THEN "returned" ELSE ret'.tag
    /\ UNCHANGED <<n, q, g, input_upper_bound, min_modulus, a, omegas, phis,
                   br_phis, inv_phis, ntt_res, intt_res, naive_res, number,
                   bit_length, ts>>

NextModulus == FindModulus

SpecModulus == InitModulus /\ [][NextModulus]_vars

(***************************************************************************)
(* gen_omegas(n, q) for a prime q with n dividing q - 1; g is the          *)
(* primitive root the oracle hands back.                                   *)
(***************************************************************************)
InitOmegas ==
    /\ pc = "gen_omegas"
    /\ n \in PowersOfTwo
    /\ q \in {p \in Primes : (p - 1) % n = 0}
    /\ g \in PrimitiveRoots(q)
    /\ a = <<>> /\ ret = None /\ ts = NoTS
    /\ NoBounds /\ NoTables /\ NoResults /\ NoReverse

GenOmegas ==
    /\ pc = "gen_omegas"
    /\ IF OmegasOk(n, q, g)
       THEN pc' = "returned" /\ omegas' = gen_omegas(n, q, g)
       ELSE pc' = "AssertionError" /\ UNCHANGED omegas
    /\ UNCHANGED <<n, q, g, input_upper_bound, min_modulus, a, phis,
                   br_phis, inv_phis, ntt_res, intt_res, naive_res, number,
                   bit_length, ret, ts>>

NextOmegas == GenOmegas

SpecOmegas == InitOmegas /\ [][NextOmegas]_vars

(***************************************************************************)
(* Claims about reverse_bits, inversed, find_modulus and gen_omegas.       *)
(***************************************************************************)
\* C9: bit reversal is an involution: for every bit width L and index
\* i < 2^L, reverse_bits(i, L) is again an index below 2^L and reversing it
\* once more gives i back.
C9_Involution ==
    pc = "returned" =>
        /\ ret.val \in 0..(2 ^ bit_length - 1)
        /\ reverse_bits(ret.val, bit_length) = number

\* a reversal that moved the index, at the largest width
C9_Witness ==
    pc = "returned" /\ bit_length = MaxBits /\ ret.val # number /\ number > 1

\* C3: for every prime q and every a with 1 <= a < q, a = 1 included, the
\* value inversed([a], q) holds is some b in [0, q) with (a * b) mod q == 1.
C3_InverseOfEveryUnit ==
    pc = "returned" =>
        /\ inv_phis[1] \in 0..(q - 1)
        /\ (a[1] * inv_phis[1]) % q = 1

\* what the code does do: every unit other than 1 is inverted
C3_InverseOfUnitsAboveOne ==
    (pc = "returned" /\ a[1] # 1) =>
        /\ inv_phis[1] \in 0..(q - 1)
        /\ (a[1] * inv_phis[1]) % q = 1

\* C4: when no candidate 2*n*k + 1 with k in the searched range is a prime
\* >= min_modulus (and min_modulus > n), find_modulus fails with
\* ModulusNotFound; it never returns None.
C4_ExhaustionRaises ==
    (/\ pc # "find_modulus"
     /\ min_modulus > n
     /\ \A k \in 1..(n ^ n - 1) :
            ~(isprime(2 * n * k + 1) /\ 2 * n * k + 1 >= min_modulus))
    => ret.tag = "ModulusNotFound"

\* C5: whenever find_modulus(n, min_modulus), min_modulus > n, returns a
\* modulus q: q is prime, q >= min_modulus, q mod 2n == 1 and q = 2*n*k + 1
\* for the smallest k >= 1 whose candidate is a prime >= min_modulus.
C5_FirstPrimeCandidate ==
    (pc = "returned" /\ ret.tag = "int" /\ min_modulus > n) =>
        /\ isprime(ret.val)
        /\ ret.val >= min_modulus
        /\ ret.val % (2 * n) = 1
        /\ \E k \in 1..ret.val :
               /\ ret.val = 2 * n * k + 1
               /\ \A j \in 1..(k - 1) :
                      ~(isprime(2 * n * j + 1) /\ 2 * n * j + 1 >= min_modulus)

\* a search that had to pass over a prime candidate below min_modulus
C5_Witness ==
    /\ pc = "returned" /\ ret.tag = "int" /\ min_modulus > n
    /\ isprime(2 * n + 1) /\ ret.val > 2 * n + 1

\* C6: for n >= 2 a power of two, a prime q with n dividing q - 1 and any
\* primitive root g, the root omega at index 1 of gen_omegas(n, q) has
\* omega^n mod q == 1 and omega^(n/2) mod q == q - 1.
C6_RootHasOrderN ==
    (pc = "returned" /\ n >= 2) =>
        /\ ModPow(Get(omegas, 1), n, q) = 1
        /\ ModPow(Get(omegas, 1), n \div 2, q) = q - 1

\* a table of length 4 whose root is neither 1 nor q - 1
C6_Witness ==
    /\ pc = "returned" /\ n = 4
    /\ Get(omegas, 1) \notin {1, q - 1}

\* C8: the table of gen_omegas(n, q) has (table[i] * table[n-i]) mod q == 1
\* for i = 1..n-1, and the assertion inside gen_omegas never fails.
C8_ConjugateSymmetry ==
    /\ pc # "AssertionError"
    /\ pc = "returned" =>
           \A i \in 1..(n - 1) : (Get(omegas, i) * Get(omegas, n - i)) % q = 1

\* a returned table of length 4 with distinct conjugate entries
C8_Witness ==
    /\ pc = "returned" /\ n = 4 /\ Len(omegas) = 4
    /\ Get(omegas, 1) # Get(omegas, 3)

(***************************************************************************)
(* gen_phis(omegas, q) on the table of gen_omegas(n, q), q = 1 mod 2n,     *)
(* one iteration of the while loop of tonelli_shanks at a time.  phis      *)
(* holds the entries of the list comprehension computed so far, ts the     *)
(* locals of the running tonelli_shanks call.                              *)
(***************************************************************************)
InitPhis ==
    /\ pc = "gen_phis"
    /\ n \in PowersOfTwo
    /\ q \in {p \in Primes : p % (2 * n) = 1}
    /\ g \in PrimitiveRoots(q)
    /\ omegas = gen_omegas(n, q, g)
    /\ phis = <<>> /\ br_phis = <<>> /\ inv_phis = <<>>
    /\ a = <<>> /\ ret = None /\ ts = NoTS
    /\ NoBounds /\ NoResults /\ NoReverse

\* tonelli_shanks is entered for the next entry, up to the first loop test
TSCall ==
    /\ pc = "gen_phis"
    /\ Len(phis) < Len(omegas)
    /\ LET x == omegas[Len(phis) + 1]
       IN  IF TwoPart(q - 1) = 1
           THEN /\ phis' = Append(phis, ModPow(x, (q + 1) \div 4, q))
                /\ UNCHANGED <<pc, ts>>
           ELSE /\ ts' = TSEnter(x, q)
                /\ pc' = "while"
                /\ UNCHANGED phis
    /\ UNCHANGED <<n, q, g, input_upper_bound, min_modulus, a, omegas,
                   br_phis, inv_phis, ntt_res, intt_res, naive_res, number,
                   bit_length, ret>>

\* the loop test holds: one iteration
TSIterate ==
    /\ pc = "while"
    /\ TSRunning(ts, q)
    /\ IF TSFails(ts)
       THEN pc' = "ValueError" /\ UNCHANGED ts
       ELSE ts' = TSStep(ts, q) /\ UNCHANGED pc
    /\ UNCHANGED <<n, q, g, input_upper_bound, min_modulus, a, omegas, phis,
                   br_phis, inv_phis, ntt_res, intt_res, naive_res, number,
                   bit_length, ret>>

\* the loop test fails: return r
TSReturn ==
    /\ pc = "while"
    /\ ~TSRunning(ts, q)
    /\ phis' = Append(phis, ts.r)
    /\ ts' = NoTS
    /\ pc' = "gen_phis"
    /\ UNCHANGED <<n, q, g, input_upper_bound, min_modulus, a, omegas,
                   br_phis, inv_phis, ntt_res, intt_res, naive_res, number,
                   bit_length, ret>>

\* the list comprehension is complete
PhisReturn ==
    /\ pc = "gen_phis"
    /\ Len(phis) = Len(omegas)
    /\ pc' = "returned"
    /\ UNCHANGED <<n, q, g, input_upper_bound, min_modulus, a, omegas, phis,
                   br_phis, inv_phis, ntt_res, intt_res, naive_res, number,
                   bit_length, ret, ts>>

NextPhis == TSCall \/ TSIterate \/ TSReturn \/ PhisReturn

\* the interpreter runs the one thread until it returns or raises
SpecPhis == InitPhis /\ [][NextPhis]_vars /\ WF_vars(NextPhis)

\* C7: for n >= 2 a power of two, a prime q = 1 mod 2n, omegas =
\* gen_omegas(n, q) and phis = gen_phis(omegas, q): the Tonelli-Shanks loop
\* ends for every entry (gen_phis returns), and (phis[i] * phis[i]) mod q ==
\* omegas[i] for every index i; the list gen_phis builds is the one the
\* loop computes entry by entry.
C7_PhisAreSquareRoots ==
    /\ [](n >= 2 => pc \notin {"ValueError"})
    /\ [](pc = "returned" /\ n >= 2 =>
              /\ phis = gen_phis(omegas, q)
              /\ Len(phis) = n
              /\ \A i \in 1..n : (phis[i] * phis[i]) % q = omegas[i])
    /\ (n >= 2 ~> pc = "returned")

\* gen_phis has returned a table of length 4 in which some entry is not its
\* own square root
C7_Witness ==
    /\ pc = "returned" /\ n = 4 /\ Len(phis) = 4
    /\ \E i \in 1..4 : phis[i] # omegas[i]

(***************************************************************************)
(* round_trip_ntt(n, input_upper_bound), one statement at a time.          *)
(* min_modulus is either what line 153 computes, input_upper_bound * n,    *)
(* or input_upper_bound * n + 1.  The list a is drawn (line 156) where it  *)
(* is first read, at the call of cooley_tukey_ntt_opt: the statements in   *)
(* between neither read nor write it.  When find_modulus returns None,     *)
(* gen_omegas fails on (q - 1) // n.                                       *)
(***************************************************************************)
\* the upper bounds whose lists of length len are few enough to enumerate
InputBounds(len) == {b \in 1..MaxBound : (b + 1) ^ len <= MaxLists}

InitRoundTrip ==
    /\ pc = "find_modulus"
    /\ n \in PowersOfTwo
    /\ input_upper_bound \in InputBounds(n)
    /\ min_modulus \in {input_upper_bound * n, input_upper_bound * n + 1}
    /\ q = 0 /\ g = 0 /\ a = <<>> /\ ret = None /\ ts = NoTS
    /\ NoTables /\ NoResults /\ NoReverse

\* q = find_modulus(n, min_modulus)
RTFindModulus ==
    /\ pc = "find_modulus"
    /\ ret' = find_modulus(n, min_modulus)
    /\ q' = ret'.val
    /\ pc' = IF ret'.tag = "AssertionError" THEN "assert_min_modulus"
             ELSE "gen_omegas"
    /\ UNCHANGED <<n, g, input_upper_bound, min_modulus, a, omegas, phis,
                   br_phis, inv_phis, ntt_res, intt_res, naive_res, number,
                   bit_length, ts>>

\* omegas = gen_omegas(n, q); phis = gen_phis(omegas, q);
\* br_phis = get_bit_reversed(phis, n, q)
RTTables ==
    /\ pc = "gen_omegas"
    /\ IF ret.tag = "None"
       THEN pc' = "TypeError" /\ UNCHANGED <<g, omegas, phis, br_phis>>
       ELSE /\ g' = primitive_root(q)
            /\ IF OmegasOk(n, q, g')
               THEN /\ omegas' = gen_omegas(n, q, g')
                    /\ phis' = gen_phis(omegas', q)
                    /\ br_phis' = get_bit_reversed(phis', n, q)
                    /\ pc' = "ntt"
               ELSE pc' = "assert_omegas" /\ UNCHANGED <<omegas, phis, br_phis>>
    /\ UNCHANGED <<n, q, input_upper_bound, min_modulus, a, inv_phis,
                   ntt_res, intt_res, naive_res, number, bit_length, ret, ts>>

\* a = [random.randint(0, input_upper_bound) for _ in range(n)];
\* ntt_res = cooley_tukey_ntt_opt(a, n, q, br_phis)
RTForward ==
    /\ pc = "ntt"
    /\ a' \in Lists(n, input_upper_bound)
    /\ IF CTAsserts(n, q)
       THEN /\ ntt_res' = cooley_tukey_ntt_opt(a', n, q, br_phis)
            /\ pc' = "inversed"
       ELSE pc' = "assert_ntt" /\ UNCHANGED ntt_res
    /\ UNCHANGED <<n, q, g, input_upper_bound, min_modulus, omegas, phis,
                   br_phis, inv_phis, intt_res, naive_res, number,
                   bit_length, ret, ts>>

\* inv_phis = inversed(phis, q); inv_phis = get_bit_reversed(inv_phis, n, q)
RTInverseTables ==
    /\ pc = "inversed"
    /\ IF InversedRaises(phis, q)
       THEN pc' = "ZeroDivisionError" /\ UNCHANGED inv_phis
       ELSE /\ inv_phis' = get_bit_reversed(inversed(phis, q), n, q)
            /\ pc' = "intt"
    /\ UNCHANGED <<n, q, g, input_upper_bound, min_modulus, a, omegas, phis,
                   br_phis, ntt_res, intt_res, naive_res, number,
                   bit_length, ret, ts>>

\* intt_res = gentleman_sande_intt_opt(ntt_res, n, q, inv_phis)
RTInverse ==
    /\ pc = "intt"
    /\ intt_res' = gentleman_sande_intt_opt(ntt_res, n, q, inv_phis)
    /\ pc' = "check_eq"
    /\ UNCHANGED <<n, q, g, input_upper_bound, min_modulus, a, omegas, phis,
                   br_phis, inv_phis, ntt_res, naive_res, number,
                   bit_length, ret, ts>>

\* check_eq(a, intt_res)
RTCheck ==
    /\ pc = "check_eq"
    /\ pc' = IF check_eq(a, intt_res) THEN "ok!" ELSE "assert_check_eq"
    /\ UNCHANGED <<n, q, g, input_upper_bound, min_modulus, a, omegas, phis,
                   br_phis, inv_phis, ntt_res, intt_res, naive_res, number,
                   bit_length, ret, ts>>

NextRoundTrip ==
    \/ RTFindModulus \/ RTTables \/ RTForward
    \/ RTInverseTables \/ RTInverse \/ RTCheck

SpecRoundTrip == InitRoundTrip /\ [][NextRoundTrip]_vars

InitNtt ==
    /\ pc = "gen_omegas"
    /\ n \in PowersOfTwo
    /\ q \in {p \in Primes : (p - 1) % n = 0}
    /\ a \in Lists(n, MaxEntry)
    /\ g = 0 /\ ret = None /\ ts = NoTS
    /\ NoBounds /\ NoTables /\ NoResults /\ NoReverse

\* omegas = gen_omegas(n, p)
NttOmegas ==
    /\ pc = "gen_omegas"
    /\ g' = primitive_root(q)
    /\ IF OmegasOk(n, q, g')
       THEN omegas' = gen_omegas(n, q, g') /\ pc' = "naive_ntt"
       ELSE pc' = "assert_omegas" /\ UNCHANGED omegas
    /\ UNCHANGED <<n, q, input_upper_bound, min_modulus, a, phis, br_phis,
                   inv_phis, ntt_res, intt_res, naive_res, number,
                   bit_length, ret, ts>>

\* naive_res = naive_ntt(a, p, omegas)
NttNaive ==
    /\ pc = "naive_ntt"
    /\ naive_res' = naive_ntt(a, q, omegas)
    /\ pc' = "cooley_tukey_ntt"
    /\ UNCHANGED <<n, q, g, input_upper_bound, min_modulus, a, omegas, phis,
                   br_phis, inv_phis, ntt_res, intt_res, number,
                   bit_length, ret, ts>>

\* cooley_tukey_res = cooley_tukey_ntt(a, p, omegas)
NttCooleyTukey ==
    /\ pc = "cooley_tukey_ntt"
    /\ ntt_res' = cooley_tukey_ntt(a, q, omegas)
    /\ a' = ntt_res'
    /\ pc' = "returned"
    /\ UNCHANGED <<n, q, g, input_upper_bound, min_modulus, omegas, phis,
                   br_phis, inv_phis, intt_res, naive_res, number,
                   bit_length, ret, ts>>

NextNtt == NttOmegas \/ NttNaive \/ NttCooleyTukey

SpecNtt == InitNtt /\ [][NextNtt]_vars

\* C2: for every power of two N, prime P with N dividing P - 1, the table
\* of powers of a primitive N-th root of unity and every list inp of N
\* non-negative integers, cooley_tukey_ntt returns the list naive_ntt
\* returns: ret[i] = sum over j of inp[j] * w^(i*j) mod P.
C2_FastEqualsDirect ==
    pc = "returned" => /\ Len(ntt_res) = n
                       /\ \A i \in 1..n : ntt_res[i] = naive_res[i]

\* what the code does do: the two agree once there is a butterfly stage
\* (N >= 2), and for N = 1 whenever the one entry is already reduced
C2_AgreeFromLengthTwo ==
    (pc = "returned" /\ (n >= 2 \/ ntt_res[1] < q)) =>
        \A i \in 1..n : ntt_res[i] = naive_res[i]

(***************************************************************************)
(* gentleman_sande_intt_opt on any list of field elements, with the        *)
(* inverse table round_trip_ntt builds: first the butterflies, which leave *)
(* the list a, then the scaling of the return statement.                   *)
(***************************************************************************)
InitIntt ==
    /\ pc = "intt"
    /\ n \in PowersOfTwo
    /\ q \in {p \in Primes : p % (2 * n) = 1}
    /\ g = primitive_root(q)
    /\ omegas = gen_omegas(n, q, g)
    /\ phis = gen_phis(omegas, q)
    /\ br_phis = get_bit_reversed(phis, n, q)
    /\ inv_phis = get_bit_reversed(inversed(phis, q), n, q)
    /\ ntt_res \in Lists(n, Min(MaxEntry, q - 1))
    /\ a = <<>> /\ intt_res = <<>> /\ naive_res = <<>>
    /\ ret = None /\ ts = NoTS
    /\ NoBounds /\ NoReverse

\* a = inp.copy() and the while loop
InttButterflies ==
    /\ pc = "intt"
    /\ a' = GSButterflies(ntt_res, n, q, inv_phis)
    /\ pc' = "scale"
    /\ UNCHANGED <<n, q, g, input_upper_bound, min_modulus, omegas, phis,
                   br_phis, inv_phis, ntt_res, intt_res, naive_res, number,
                   bit_length, ret, ts>>

\* return [(i // n) % q for i in a]
InttScale ==
    /\ pc = "scale"
    /\ intt_res' = GSScale(a, n, q)
    /\ pc' = "returned"
    /\ UNCHANGED <<n, q, g, input_upper_bound, min_modulus, a, omegas, phis,
                   br_phis, inv_phis, ntt_res, naive_res, number,
                   bit_length, ret, ts>>

NextIntt == InttButterflies \/ InttScale

SpecIntt == InitIntt /\ [][NextIntt]_vars

\* C10: every element gentleman_sande_intt_opt returns is the list a after
\* the butterflies scaled by the modular inverse of n:
\* result[i] == (a[i] * n^-1) mod q, so that (result[i] * n) mod q == a[i].
C10_ScaledByInverseOfN ==
    pc = "returned" =>
        \A i \in 1..n :
            /\ \E b \in 0..(q - 1) :
                   (n * b) % q = 1 /\ intt_res[i] = (a[i] * b) % q
            /\ (intt_res[i] * n) % q = a[i]

====
